---- MODULE Spec2Model ----
(***************************************************************************)
(* Model of the durationcheck analyzer (src/durationcheck.go): one run of  *)
(* the pass over one package.  The package is a list of import paths, a    *)
(* syntax tree and the tables Types, Defs and Uses of pass.TypesInfo; the  *)
(* pass walks every *ast.BinaryExpr in pre-order and reports the           *)
(* multiplications of two time.Duration values whose operands are both     *)
(* unacceptable.                                                           *)
(*                                                                         *)
(* Go booleans that can be replaced by a run-time panic are the strings    *)
(* "true", "false" and "panic": isDuration dereferences its argument, and  *)
(* TypesInfo.TypeOf returns nil for an expression that has no entry in     *)
(* Types and is not an identifier with an object in Defs or Uses.          *)
(***************************************************************************)
EXTENDS Integers, Sequences, FiniteSets, TLC

\* ------------------------------------------------------------------------
\* Bounds of the explored packages.
MaxNodes == 5        \* expression nodes in the two operands of the root
MaxArgs == 2         \* arguments of a call expression

\* The import lists of the explored packages.
ImportLists == {<<>>, <<"fmt">>, <<"fmt", "time">>}
Operators == {"*", "+"}

\* The nil types.Type returned by TypesInfo.TypeOf when nothing is recorded
\* (and the nil types.Object of ObjectOf).
NilType == "<nil>"

\* ------------------------------------------------------------------------
\* go/ast nodes (the fields the analyzer and the printer read).
BasicLit(pos, value) == [kind |-> "BasicLit", ValuePos |-> pos, Value |-> value]

Ident(pos, name) == [kind |-> "Ident", NamePos |-> pos, Name |-> name]

SelectorExpr(x, sel) == [kind |-> "SelectorExpr", X |-> x, Sel |-> sel]

CallExpr(fun, args) == [kind |-> "CallExpr", Fun |-> fun, Args |-> args]

BinaryExpr(x, op, y) == [kind |-> "BinaryExpr", X |-> x, Op |-> op, Y |-> y]

\* token.Token.Precedence for the two operators of the model.
Precedence(op) == IF op = "*" THEN 5 ELSE 4

\* go/printer (format.Node prints an expression with expr1(x, LowestPrec, 1)).
\* walkBinary: does the binary expression e hold an operator of precedence p
\* outside the operands that will be parenthesised?
RECURSIVE hasPrecedence(_, _)
hasPrecedence(e, p) ==
    \/ Precedence(e.Op) = p
    \/ /\ e.X.kind = "BinaryExpr"
       /\ ~(Precedence(e.X.Op) < Precedence(e.Op))
       /\ hasPrecedence(e.X, p)
    \/ /\ e.Y.kind = "BinaryExpr"
       /\ ~(Precedence(e.Y.Op) <= Precedence(e.Op))
       /\ hasPrecedence(e.Y, p)

\* cutoff: operators of a precedence below it are printed between blanks.
cutoff(e, depth) ==
    IF hasPrecedence(e, 4) /\ hasPrecedence(e, 5)
      THEN (IF depth = 1 THEN 5 ELSE 4)
      ELSE (IF depth = 1 THEN 6 ELSE 4)

diffPrec(expr, prec) ==
    IF expr.kind = "BinaryExpr" /\ prec = Precedence(expr.Op) THEN 0 ELSE 1

reduceDepth(depth) == IF depth - 1 < 1 THEN 1 ELSE depth - 1

\* expr1 and exprList: the text of an expression printed as an operand of
\* precedence prec1 at the given depth.  With the empty file set formatNode
\* passes, the printer knows no line and breaks none.
RECURSIVE expr1(_, _, _)
RECURSIVE exprList(_, _)
expr1(e, prec1, depth) ==
    CASE e.kind = "BasicLit" -> e.Value
      [] e.kind = "Ident" -> e.Name
      [] e.kind = "SelectorExpr" -> expr1(e.X, 7, depth) \o "." \o e.Sel.Name
      [] e.kind = "CallExpr" ->
           LET d == IF Len(e.Args) > 1 THEN depth + 1 ELSE depth
           IN  expr1(e.Fun, 7, d) \o "(" \o exprList(e.Args, d) \o ")"
      [] e.kind = "BinaryExpr" ->
           LET prec == Precedence(e.Op)
               blank == IF prec < cutoff(e, depth) THEN " " ELSE ""
           IN  IF prec < prec1
                 THEN "(" \o expr1(e, 0, reduceDepth(depth)) \o ")"
                 ELSE expr1(e.X, prec, depth + diffPrec(e.X, prec))
                        \o blank \o e.Op \o blank
                        \o expr1(e.Y, prec + 1, depth + 1)

exprList(list, depth) ==
    IF list = <<>> THEN ""
    ELSE IF Len(list) = 1 THEN expr1(list[1], 0, depth)
    ELSE expr1(list[1], 0, depth) \o ", " \o exprList(Tail(list), depth)

\* The source text the positions of a tree are laid out on: a blank on each
\* side of an operator, and parentheses around a binary operand that needs
\* them at precedence prec1.
RECURSIVE SourceText(_, _)
RECURSIVE SourceArgs(_)
SourceText(e, prec1) ==
    CASE e.kind = "BasicLit" -> e.Value
      [] e.kind = "Ident" -> e.Name
      [] e.kind = "SelectorExpr" -> SourceText(e.X, 0) \o "." \o e.Sel.Name
      [] e.kind = "CallExpr" -> SourceText(e.Fun, 0) \o "(" \o SourceArgs(e.Args) \o ")"
      [] e.kind = "BinaryExpr" ->
           LET prec == Precedence(e.Op)
               text == SourceText(e.X, prec) \o " " \o e.Op \o " "
                         \o SourceText(e.Y, prec + 1)
           IN  IF prec < prec1 THEN "(" \o text \o ")" ELSE text

SourceArgs(args) ==
    IF args = <<>> THEN ""
    ELSE IF Len(args) = 1 THEN SourceText(args[1], 0)
    ELSE SourceText(args[1], 0) \o ", " \o SourceArgs(Tail(args))

\* ast.Node.Pos: the position of the first character of the node.
RECURSIVE Pos(_)
Pos(e) ==
    CASE e.kind = "BasicLit" -> e.ValuePos
      [] e.kind = "Ident" -> e.NamePos
      [] e.kind = "SelectorExpr" -> Pos(e.X)
      [] e.kind = "CallExpr" -> Pos(e.Fun)
      [] e.kind = "BinaryExpr" -> Pos(e.X)

\* ------------------------------------------------------------------------
\* The packages explored: every tree of the bounded grammar, laid out at the
\* positions of its source text, with the type bindings of its expressions.
\* A generated item is [ast |-> node, tv |-> bindings of the node's subtree].
EmptyTable == [n \in {} |-> NilType]

\* The type of the objects the identifiers in scope denote.
DeclaredType(name) == IF name = "d" THEN "time.Duration" ELSE "int"

\* The literal 5 (an untyped constant, recorded with the Duration type its
\* context converts it to) and the identifiers d and n.
Leaves(base) ==
    {[ast |-> BasicLit(base, "5"), tv |-> (BasicLit(base, "5") :> "time.Duration")]}
    \cup {[ast |-> Ident(base, nm), tv |-> (Ident(base, nm) :> DeclaredType(nm))] :
              nm \in {"d", "n"}}

\* The call targets: time.Duration, time.Since, t.Duration, Duration and
\* x.time.Duration.
Funs(base) ==
    {SelectorExpr(Ident(base, "time"), Ident(base + 5, "Duration")),
     SelectorExpr(Ident(base, "time"), Ident(base + 5, "Since")),
     SelectorExpr(Ident(base, "t"), Ident(base + 2, "Duration")),
     Ident(base, "Duration"),
     SelectorExpr(SelectorExpr(Ident(base, "x"), Ident(base + 2, "time")),
                  Ident(base + 7, "Duration"))}

\* The type the checker records for a call of each target (t is an import
\* alias of time, Duration a local alias of time.Duration, x.time a struct
\* field with a method Duration returning int).
ResultType(f) ==
    IF f.kind = "SelectorExpr" /\ f.X.kind = "SelectorExpr" THEN "int" ELSE "time.Duration"

\* The call f() of a function declared func f() time.Duration: an argument
\* that is neither a literal, nor a binary expression, nor an identifier.
FCall(base) ==
    {[ast |-> CallExpr(Ident(base, "f"), <<>>),
      tv |-> (CallExpr(Ident(base, "f"), <<>>) :> "time.Duration")]}

\* The literal arguments 5, 5, ... that follow the first argument of a call.
RECURSIVE ExtraArgs(_, _)
ExtraArgs(k, base) ==
    IF k = 0 THEN <<>> ELSE <<BasicLit(base, "5")>> \o ExtraArgs(k - 1, base + 3)

RECURSIVE ExtraTypes(_)
ExtraTypes(args) ==
    IF args = <<>> THEN EmptyTable ELSE (Head(args) :> "int") @@ ExtraTypes(Tail(args))

\* The literals, identifiers and binary expressions of exactly n nodes,
\* printed at offset base as an operand of precedence prec1.
RECURSIVE ExprsOfSize(_, _, _)
ExprsOfSize(n, base, prec1) ==
    IF n < 1 THEN {}
    ELSE IF n = 1 THEN Leaves(base)
    ELSE
      UNION {UNION {LET open == IF Precedence(op) < prec1 THEN 1 ELSE 0
                    IN  UNION {{[ast |-> BinaryExpr(x.ast, op, y.ast),
                                 tv |-> x.tv @@ y.tv @@
                                        (BinaryExpr(x.ast, op, y.ast) :> x.tv[x.ast])] :
                                   y \in ExprsOfSize(n - 1 - i,
                                           base + open + 3
                                             + Len(SourceText(x.ast, Precedence(op))),
                                           Precedence(op) + 1)} :
                               x \in ExprsOfSize(i, base + open, Precedence(op))} :
                    i \in 1..(n - 2)} : op \in Operators}

\* The first arguments of exactly n nodes.
ArgsOfSize(n, base) ==
    ExprsOfSize(n, base, 0) \cup (IF n = 1 THEN FCall(base) ELSE {})

\* The call expressions of exactly n nodes (the call, its first argument and
\* the literal arguments after it) printed at offset base.  A call of one
\* argument has any target; the other calls are calls of time.Duration.
CallsOfSize(n, base) ==
    LET td == SelectorExpr(Ident(base, "time"), Ident(base + 5, "Duration"))
        none == IF n = 1
                  THEN {[ast |-> CallExpr(td, <<>>),
                         tv |-> (CallExpr(td, <<>>) :> ResultType(td))]}
                  ELSE {}
        some ==
          UNION {UNION {LET open == base + Len(SourceText(f, 0)) + 1
                        IN  {LET args == <<a.ast>> \o
                                   ExtraArgs(k - 1, open + Len(SourceText(a.ast, 0)) + 2)
                                 call == CallExpr(f, args)
                             IN  [ast |-> call,
                                  tv |-> a.tv @@ ExtraTypes(Tail(args))
                                           @@ (call :> ResultType(f))] :
                               a \in ArgsOfSize(n - k, open)} :
                        f \in IF k = 1 THEN Funs(base) ELSE {td}} :
                 k \in 1..MaxArgs}
    IN  none \cup some

\* The conversions time.Duration(a) of exactly n nodes.
Conversions(n, base) ==
    LET td == SelectorExpr(Ident(base, "time"), Ident(base + 5, "Duration"))
    IN  {[ast |-> CallExpr(td, <<a.ast>>),
          tv |-> a.tv @@ (CallExpr(td, <<a.ast>>) :> ResultType(td))] :
            a \in ArgsOfSize(n - 1, base + 14)}

\* The operands of exactly n nodes below the root: literals, identifiers,
\* conversions and the binary expressions over them.
RECURSIVE TermsOfSize(_, _, _)
TermsOfSize(n, base, prec1) ==
    IF n < 1 THEN {}
    ELSE IF n = 1 THEN Leaves(base)
    ELSE
      Conversions(n, base) \cup
      UNION {UNION {LET open == IF Precedence(op) < prec1 THEN 1 ELSE 0
                    IN  UNION {{[ast |-> BinaryExpr(x.ast, op, y.ast),
                                 tv |-> x.tv @@ y.tv @@
                                        (BinaryExpr(x.ast, op, y.ast) :> x.tv[x.ast])] :
                                   y \in TermsOfSize(n - 1 - i,
                                           base + open + 3
                                             + Len(SourceText(x.ast, Precedence(op))),
                                           Precedence(op) + 1)} :
                               x \in TermsOfSize(i, base + open, Precedence(op))} :
                    i \in 1..(n - 2)} : op \in Operators}

OperandsOfSize(n, base, prec1) == TermsOfSize(n, base, prec1) \cup CallsOfSize(n, base)

\* The trees: one binary expression over two operands of at most MaxNodes
\* nodes together, at offset 1 of the file.
Trees ==
    UNION {UNION {UNION {UNION {{[ast |-> BinaryExpr(x.ast, op, y.ast),
                                  tv |-> x.tv @@ y.tv @@
                                         (BinaryExpr(x.ast, op, y.ast) :> x.tv[x.ast])] :
                                   y \in OperandsOfSize(j,
                                           4 + Len(SourceText(x.ast, Precedence(op))),
                                           Precedence(op) + 1)} :
                                x \in OperandsOfSize(i, 1, Precedence(op))} :
                         j \in 1..(MaxNodes - i)} :
                  i \in 1..(MaxNodes - 1)} : op \in Operators}

\* A table without the bindings of the expressions in missing.
Without(tv, missing) == [n \in (DOMAIN tv) \ missing |-> tv[n]]

\* The incomplete tables explored: at most one expression has no binding.
MissingSets(tv) == {{}} \cup {{n} : n \in DOMAIN tv}

\* The objects of the identifiers bound in tv: identifier -> object type.
ObjectsOf(tv) ==
    [n \in {m \in DOMAIN tv : m.kind = "Ident"} |-> DeclaredType(n.Name)]

\* Where the object of an identifier without a binding is recorded.
ObjectTables == {"Uses", "Defs", "none"}

\* ------------------------------------------------------------------------
\* State of one run of the pass.
VARIABLES
    pkgImports,    \* pass.Pkg.Imports(): the import paths of the package
    file,          \* the syntax tree the inspector walks
    typesInfo,     \* pass.TypesInfo.Types: expression -> recorded type
    defs,          \* pass.TypesInfo.Defs: identifier -> type of its object
    uses,          \* pass.TypesInfo.Uses: identifier -> type of its object
    pc,            \* "run", "inspect", "returned" or "panicked"
    queue,         \* the binary expressions Preorder has still to hand to check
    visited,       \* the nodes check has been called on, in order
    reported,      \* the nodes check has called pass.Reportf for, in order
    diagnostics    \* the diagnostics handed to pass.Reportf, in order

vars == <<pkgImports, file, typesInfo, defs, uses, pc, queue, visited, reported,
          diagnostics>>

\* ------------------------------------------------------------------------
\* Three-valued Go booleans.
Bool(b) == IF b THEN "true" ELSE "false"

\* !a
Not(a) == IF a = "true" THEN "false" ELSE IF a = "false" THEN "true" ELSE "panic"

\* a && b: b is evaluated only when a is true.
AndAlso(a, b) == IF a = "true" THEN b ELSE a

\* ------------------------------------------------------------------------
\* The analyzer.
\* hasImport returning from the first iteration of its loop.
hasImportFirstIteration(imports, importPath) == imports # <<>>

RECURSIVE hasImport(_, _)
hasImport(imports, importPath) ==
    IF imports = <<>> THEN FALSE
    ELSE IF Head(imports) = importPath THEN TRUE
    ELSE hasImport(Tail(imports), importPath)

\* types.Info.ObjectOf: the object of id in Defs, else in Uses, else nil
\* (an object is represented by its type).
ObjectOf(id) ==
    IF id \in DOMAIN defs THEN defs[id]
    ELSE IF id \in DOMAIN uses THEN uses[id]
    ELSE NilType

\* types.Info.TypeOf: the type recorded in Types; else, for an identifier
\* with an object, the type of the object; else nil.
TypeOf(n) ==
    IF n \in DOMAIN typesInfo THEN typesInfo[n]
    ELSE IF n.kind = "Ident" /\ ObjectOf(n) # NilType THEN ObjectOf(n)
    ELSE NilType

\* x.String() == "time.Duration"; a nil x is dereferenced.
isDuration(x) == IF x = NilType THEN "panic" ELSE Bool(x = "time.Duration")

RECURSIVE isAcceptableCastArg(_)
isAcceptableCastArg(n) ==
    CASE n.kind = "BasicLit" -> "true"
      [] n.kind = "BinaryExpr" ->
           AndAlso(isAcceptableCastArg(n.X), isAcceptableCastArg(n.Y))
      [] OTHER -> Not(isDuration(TypeOf(n)))

isAcceptableCast(e) ==
    IF Len(e.Args) # 1 THEN "false"
    ELSE LET arg == isAcceptableCastArg(e.Args[1])
         IN  IF arg # "true" THEN arg
             ELSE IF e.Fun.kind # "SelectorExpr" THEN "false"
             ELSE IF e.Fun.X.kind # "Ident" THEN "false"
             ELSE IF e.Fun.X.Name # "time" THEN "false"
             ELSE Bool(e.Fun.Sel.Name = "Duration")

\* isUnacceptableExpr without the case of the literals.
isUnacceptableExprNoLiteralCase(expr) ==
    CASE expr.kind = "CallExpr" -> Not(isAcceptableCast(expr))
      [] OTHER -> "true"

isUnacceptableExpr(expr) ==
    CASE expr.kind = "BasicLit" -> "false"
      [] expr.kind = "CallExpr" -> Not(isAcceptableCast(expr))
      [] OTHER -> "true"

\* format.Node into a buffer; err is the printer failing.
formatNode(node, err) == IF err THEN "" ELSE expr1(node, 0, 1)

\* The backquote of the message format (a TLA+ string cannot hold one; the
\* model writes it as an apostrophe).
Backquote == "'"

\* The diagnostic reported at the right operand instead of the expression.
DiagnosticAtRightOperand(expr, err) ==
    [Pos |-> Pos(expr.Y),
     Message |-> "Multiplication of durations: " \o Backquote
                   \o formatNode(expr, err) \o Backquote]

\* The diagnostic of pass.Reportf(expr.Pos(), format, formatNode(expr)), the
\* format being "Multiplication of durations: " and %s between backquotes.
Diagnostic(expr, err) ==
    [Pos |-> Pos(expr),
     Message |-> "Multiplication of durations: " \o Backquote
                   \o formatNode(expr, err) \o Backquote]

\* The callback of check on one binary expression: "report" when it reaches
\* pass.Reportf, "return" when it returns without reporting, "panic" when
\* the classification of an operand panics.
check(expr) ==
    IF expr.Op # "*" THEN "return"
    ELSE IF ~(expr.X \in DOMAIN typesInfo /\ expr.Y \in DOMAIN typesInfo) THEN "return"
    ELSE IF AndAlso(isDuration(typesInfo[expr.X]), isDuration(typesInfo[expr.Y])) = "true"
         THEN LET both == AndAlso(isUnacceptableExpr(expr.X), isUnacceptableExpr(expr.Y))
              IN  IF both = "true" THEN "report"
                  ELSE IF both = "false" THEN "return"
                  ELSE "panic"
         ELSE "return"

\* inspector.Preorder with the node filter (*ast.BinaryExpr): the binary
\* expressions of the tree in depth-first order, a node before its children.
RECURSIVE Preorder(_)
RECURSIVE PreorderList(_)
Preorder(n) ==
    CASE n.kind = "BinaryExpr" -> <<n>> \o Preorder(n.X) \o Preorder(n.Y)
      [] n.kind = "CallExpr" -> Preorder(n.Fun) \o PreorderList(n.Args)
      [] n.kind = "SelectorExpr" -> Preorder(n.X) \o Preorder(n.Sel)
      [] OTHER -> <<>>

PreorderList(ns) ==
    IF ns = <<>> THEN <<>> ELSE Preorder(Head(ns)) \o PreorderList(Tail(ns))

\* ------------------------------------------------------------------------
Init ==
    /\ pkgImports \in ImportLists
    /\ \E t \in Trees :
         \E missing \in MissingSets(t.tv) :
            \E table \in ObjectTables :
               LET objects == ObjectsOf(t.tv)
                   ids == missing \cap DOMAIN objects
               IN  /\ file = t.ast
                   /\ typesInfo = Without(t.tv, missing)
                   /\ defs = IF table = "Defs"
                               THEN [n \in ids |-> objects[n]]
                               ELSE EmptyTable
                   /\ uses = IF table = "Uses"
                               THEN objects
                               ELSE Without(objects, ids)
    /\ pc = "run"
    /\ queue = <<>>
    /\ visited = <<>>
    /\ reported = <<>>
    /\ diagnostics = <<>>

\* run: the import gate, then the set-up of the pre-order walk.
Run ==
    /\ pc = "run"
    /\ IF ~hasImport(pkgImports, "time")
         THEN pc' = "returned" /\ queue' = <<>>
         ELSE pc' = "inspect" /\ queue' = Preorder(file)
    /\ UNCHANGED <<pkgImports, file, typesInfo, defs, uses, visited, reported, diagnostics>>

\* One call of the callback of check, on the next binary expression.
Check ==
    /\ pc = "inspect"
    /\ queue # <<>>
    /\ LET expr == Head(queue)
           outcome == check(expr)
       IN  /\ visited' = Append(visited, expr)
           /\ queue' = Tail(queue)
           /\ pc' = IF outcome = "panic" THEN "panicked" ELSE "inspect"
           /\ reported' = IF outcome = "report" THEN Append(reported, expr) ELSE reported
           /\ \E err \in BOOLEAN :
                diagnostics' = IF outcome = "report"
                                 THEN Append(diagnostics, Diagnostic(expr, err))
                                 ELSE diagnostics
    /\ UNCHANGED <<pkgImports, file, typesInfo, defs, uses>>

\* run returns after the walk.
Return ==
    /\ pc = "inspect"
    /\ queue = <<>>
    /\ pc' = "returned"
    /\ UNCHANGED <<pkgImports, file, typesInfo, defs, uses, queue, visited, reported,
                   diagnostics>>

Next == Run \/ Check \/ Return

Spec == Init /\ [][Next]_vars

\* ------------------------------------------------------------------------
\* Vocabulary of the properties.
Range(s) == {s[i] : i \in DOMAIN s}

\* Every node of the tree under n, n included.
RECURSIVE Subexprs(_)
Subexprs(n) ==
    {n} \cup
    CASE n.kind = "BinaryExpr" -> Subexprs(n.X) \cup Subexprs(n.Y)
      [] n.kind = "CallExpr" ->
           Subexprs(n.Fun) \cup UNION {Subexprs(n.Args[i]) : i \in DOMAIN n.Args}
      [] n.kind = "SelectorExpr" -> Subexprs(n.X) \cup Subexprs(n.Sel)
      [] OTHER -> {}

\* e has a binding in Types and its type is time.Duration.
DurationTyped(e) == e \in DOMAIN typesInfo /\ typesInfo[e] = "time.Duration"

\* n multiplies two Duration-typed operands.
DurationProduct(n) == n.Op = "*" /\ DurationTyped(n.X) /\ DurationTyped(n.Y)

BinaryExprs == {n \in Subexprs(file) : n.kind = "BinaryExpr"}

\* The call expressions among the operands of the Duration products the
\* scan has examined: the calls handed to the conversion-call classifier.
ClassifiedCalls ==
    {c \in UNION {{n.X, n.Y} : n \in {m \in Range(visited) : DurationProduct(m)}} :
        c.kind = "CallExpr"}

\* The expressions the cast-argument classifier reaches from e: e and, under
\* a binary expression, its operands.
RECURSIVE CastArgExprs(_)
CastArgExprs(e) ==
    {e} \cup (IF e.kind = "BinaryExpr"
                THEN CastArgExprs(e.X) \cup CastArgExprs(e.Y)
                ELSE {})

\* The expressions inside the argument of the one-argument calls among
\* them: the expressions handed to the cast-argument classifier.
ClassifiedCastArgs ==
    UNION {CastArgExprs(c.Args[1]) : c \in {c \in ClassifiedCalls : Len(c.Args) = 1}}

NoTimeImport == \A i \in DOMAIN pkgImports : pkgImports[i] # "time"

\* n multiplies two Duration-typed operands that the operand classifier both
\* classifies unacceptable.
BothUnacceptable(n) ==
    /\ DurationProduct(n)
    /\ isUnacceptableExpr(n.X) = "true"
    /\ isUnacceptableExpr(n.Y) = "true"

EmptyMessage == "Multiplication of durations: " \o Backquote \o Backquote

\* ------------------------------------------------------------------------
\* The callback decides each node it is handed as stated: the reported
\* nodes are the examined binary expressions that multiply two Duration-typed
\* operands both classified unacceptable, one diagnostic each.
ExaminedReportedIffBothUnacceptable ==
    /\ reported = SelectSeq(visited, BothUnacceptable)
    /\ Len(diagnostics) = Len(reported)

\* C1: in a package that imports time, when the run has ended, every binary
\* expression of the tree has a diagnostic if and only if it multiplies two
\* operands that both have a Duration type and are both classified
\* unacceptable, and no node has more than one diagnostic.
C1_ReportIffBothUnacceptable ==
    (~NoTimeImport /\ pc \in {"returned", "panicked"}) =>
        /\ \A n \in BinaryExprs : (n \in Range(reported)) <=> BothUnacceptable(n)
        /\ Len(diagnostics) = Cardinality(Range(reported))

\* C2: a multiplication of two Duration-typed operands one of which is a
\* bare literal is never reported, whatever the other operand is.
C2_LiteralOperandNeverReported ==
    \A n \in BinaryExprs :
        (DurationProduct(n) /\ (n.X.kind = "BasicLit" \/ n.Y.kind = "BasicLit"))
            => n \notin Range(reported)

\* A finished scan that examined the product of a literal and a conversion
\* of a Duration (an operand the classifier finds unacceptable).
C2_Witness ==
    /\ pc = "returned"
    /\ \E n \in Range(visited) :
          /\ DurationProduct(n)
          /\ n.X.kind = "BasicLit"
          /\ n.Y.kind = "CallExpr"
          /\ isUnacceptableExpr(n.Y) = "true"

\* C3: the scan never aborts, whatever bindings the type tables lack.
C3_ScanNeverAborts == pc # "panicked"

\* C4: a package that does not import time gets no diagnostic and none of
\* its binary expressions is examined.
C4_NoTimeImportNoDiagnostics ==
    NoTimeImport => (diagnostics = <<>> /\ reported = <<>> /\ visited = <<>>)

\* A finished run over a package without the import whose tree is a product
\* of two unacceptable Duration operands.
C4_Witness ==
    /\ pc = "returned"
    /\ NoTimeImport
    /\ BothUnacceptable(file)

\* The nodes the callback reports on the walk q when nothing gates the walk.
RECURSIVE ScanWithoutGate(_)
ScanWithoutGate(q) ==
    IF q = <<>> THEN <<>>
    ELSE LET outcome == check(Head(q))
         IN  IF outcome = "panic" THEN <<>>
             ELSE IF outcome = "report" THEN <<Head(q)>> \o ScanWithoutGate(Tail(q))
             ELSE ScanWithoutGate(Tail(q))

\* C5: the import gate is a pure optimisation: a finished run has reported
\* what the walk reports without the gate.
C5_GateIsPureOptimization ==
    pc = "returned" => reported = ScanWithoutGate(Preorder(file))

\* C6: in a package that imports time, when the run ends every binary
\* expression of the tree has been examined exactly once, and there is one
\* diagnostic per product of two unacceptable Duration operands.
C6_TraversalComplete ==
    (~NoTimeImport /\ pc \in {"returned", "panicked"}) =>
        /\ Range(visited) = BinaryExprs
        /\ Len(visited) = Cardinality(BinaryExprs)
        /\ Len(diagnostics) = Cardinality({n \in BinaryExprs : BothUnacceptable(n)})

\* The message of the i-th diagnostic is the fixed prefix and the text of the
\* i-th reported expression between backquotes, or empty backquotes when the
\* printer failed.
MessagesRendered ==
    /\ Len(diagnostics) = Len(reported)
    /\ \A i \in DOMAIN diagnostics :
          /\ i \in DOMAIN reported
          /\ diagnostics[i].Message \in
               {"Multiplication of durations: " \o Backquote
                  \o formatNode(reported[i], FALSE) \o Backquote,
                EmptyMessage}

\* The scan goes on after a report, whatever the printer did: it never stops
\* at a node it has reported, and the nodes after it are examined or still
\* to be examined.
ScanContinuesAfterReport ==
    /\ pc = "panicked" => visited[Len(visited)] \notin Range(reported)
    /\ pc = "inspect" => visited \o queue = Preorder(file)
    /\ (pc = "returned" /\ ~NoTimeImport) => visited = Preorder(file)

\* C7 as stated: the position of each diagnostic is that of the reported
\* expression and of none of its two operands; the message is the prefix and
\* the rendered text, empty when rendering failed; the scan continues.
C7_PositionOfNoOperand ==
    /\ MessagesRendered
    /\ ScanContinuesAfterReport
    /\ \A i \in DOMAIN diagnostics :
          /\ i \in DOMAIN reported
          /\ diagnostics[i].Pos = Pos(reported[i])
          /\ diagnostics[i].Pos # Pos(reported[i].X)
          /\ diagnostics[i].Pos # Pos(reported[i].Y)

\* C7, amended: the position of each diagnostic is the position at which the
\* reported expression starts, which is the position of its left operand and
\* never that of its right operand; the message is the prefix and the
\* rendered text, empty when rendering failed; the scan continues.
C7_DiagnosticPositionAndMessage ==
    /\ MessagesRendered
    /\ ScanContinuesAfterReport
    /\ \A i \in DOMAIN diagnostics :
          /\ i \in DOMAIN reported
          /\ diagnostics[i].Pos = Pos(reported[i])
          /\ diagnostics[i].Pos = Pos(reported[i].X)
          /\ diagnostics[i].Pos # Pos(reported[i].Y)

\* A scan that emitted a diagnostic with an empty text and went on to emit
\* one with a text.
C7_Witness ==
    /\ Len(diagnostics) = 2
    /\ diagnostics[1].Message = EmptyMessage
    /\ diagnostics[2].Message # EmptyMessage

\* The three requirements of the conversion-call classifier.
IsTimeDuration(fun) ==
    /\ fun.kind = "SelectorExpr"
    /\ fun.X.kind = "Ident"
    /\ fun.X.Name = "time"
    /\ fun.Sel.Name = "Duration"

Requirements(c) ==
    /\ Len(c.Args) = 1
    /\ isAcceptableCastArg(c.Args[1]) = "true"
    /\ IsTimeDuration(c.Fun)

\* C8: a call is accepted if and only if it has one argument, the argument
\* is safe and the target is time.Duration; a call that fails a requirement
\* is an unacceptable operand.
C8_ConversionCallClassifier ==
    \A c \in ClassifiedCalls :
        /\ (isAcceptableCast(c) = "true") <=> Requirements(c)
        /\ ~Requirements(c) => isUnacceptableExpr(c) = "true"

\* C9: the cast-argument classifier returns on every expression: safe for a
\* literal, safe for a binary expression exactly when both operands are
\* safe, and safe for any other expression exactly when its resolved type is
\* not time.Duration.
C9_CastArgumentClassifier ==
    \A e \in ClassifiedCastArgs :
        /\ isAcceptableCastArg(e) \in {"true", "false"}
        /\ e.kind = "BasicLit" => isAcceptableCastArg(e) = "true"
        /\ e.kind = "BinaryExpr" =>
             ((isAcceptableCastArg(e) = "true") <=>
                 (isAcceptableCastArg(e.X) = "true" /\ isAcceptableCastArg(e.Y) = "true"))
        /\ e.kind \notin {"BasicLit", "BinaryExpr"} =>
             ((isAcceptableCastArg(e) = "true") <=> TypeOf(e) # "time.Duration")

\* C10: the outcome of the callback on an examined x * y (a report, a return
\* without a report, or a panic) is its outcome on y * x.
C10_OperandSymmetry ==
    \A n \in Range(visited) : check(n) = check(BinaryExpr(n.Y, n.Op, n.X))

\* ------------------------------------------------------------------------
\* The expressions under n that are operands or arguments (not call targets).
RECURSIVE ValueExprs(_)
ValueExprs(n) ==
    {n} \cup
    CASE n.kind = "BinaryExpr" -> ValueExprs(n.X) \cup ValueExprs(n.Y)
      [] n.kind = "CallExpr" -> UNION {ValueExprs(n.Args[i]) : i \in DOMAIN n.Args}
      [] OTHER -> {}

\* TypesInfo.TypeOf resolves every operand and argument.
TableComplete == \A e \in ValueExprs(file) : TypeOf(e) # NilType

\* When TypeOf resolves every operand and argument, the scan does not abort
\* and the report, traversal, classifier and symmetry properties above hold: their
\* violations all come from the nil type of an unresolved cast argument.
CompleteTableProperties ==
    TableComplete =>
        /\ C1_ReportIffBothUnacceptable
        /\ C3_ScanNeverAborts
        /\ C6_TraversalComplete
        /\ C8_ConversionCallClassifier
        /\ C9_CastArgumentClassifier
        /\ C10_OperandSymmetry

====
